---- MODULE Spec2Model ----
(***************************************************************************)
(* Option<T> and Result<T, E> of what-the-type (src/examples/result):      *)
(* the two factories of each container, the methods of the objects the     *)
(* factories build, and the static predicates and assertions of the two    *)
(* namespaces.  A client holds one container (cur) and calls one           *)
(* operation at a time on it; the state records the last call: its         *)
(* receiver before and after it, its arguments, what it returned or threw, *)
(* and every invocation it made of a function it was passed.               *)
(***************************************************************************)
EXTENDS Integers, Sequences, FiniteSets

VARIABLES cur, op, recv, args, ret, thrown, calls, after, theNone

vars == <<cur, op, recv, args, ret, thrown, calls, after, theNone>>

(* ------------------------------ bounds -------------------------------- *)

\* success payloads are 0..MaxVal
MaxVal == 1
\* error payloads are -1..-MaxErr (disjoint from the success payloads)
MaxErr == 2

Vals == 0..MaxVal
Errs == {0 - i : i \in 1..MaxErr}

(* ------------------------------- tags --------------------------------- *)

\* The four Symbols; a Symbol is equal to itself only, as a string is here.
okTag == "Ok"
errTag == "Err"
someTag == "Some"
noneTag == "None"

(* ------------------------ outcome of one call ------------------------- *)

\* what a variable holds when the call gave it nothing
Undefined == [_tag |-> "undefined"]

NoThrow == [type |-> "none", message |-> ""]

\* the call returned v, having invoked the functions listed in cs; writes
\* lists the assignments it made to fields of its receiver: no method and no
\* function of the two namespaces holds an assignment
Return(v, cs) == [ret |-> v, thrown |-> NoThrow, calls |-> cs, writes |-> <<>>]

\* the call threw `new type(message)`, having invoked nothing
Throw(type, message) ==
    [ret |-> Undefined, thrown |-> [type |-> type, message |-> message],
     calls |-> <<>>, writes |-> <<>>]

\* the object obj once the assignments ws (field, to) have been made to it
RECURSIVE Written(_, _)
Written(obj, ws) ==
    IF ws = <<>> THEN obj
    ELSE Written([obj EXCEPT ![Head(ws).field] = Head(ws).to], Tail(ws))

\* one invocation of the parameter `name` on the argument x
Call(name, x) == [fn |-> name, arg |-> x]

\* A function a client passes is a TLA+ function on the arguments it returns
\* for; on any other argument its body fails.
Throws(fn, x) == x \notin DOMAIN fn

\* what such a body throws: it calls unwrap() on Option.none
FnFailure == [type |-> "Error", message |-> "Cannot unwrap None"]

\* the parameter `name`, invoked on x, threw: no method holds a try, so the
\* expression it is part of is abandoned and the method throws the same
Propagate(name, x) ==
    [ret |-> Undefined, thrown |-> FnFailure, calls |-> <<Call(name, x)>>,
     writes |-> <<>>]

(* ------------------------------ Option -------------------------------- *)

\* Option.some: the fields of the object literal
some(value) == [_tag |-> someTag, isSome |-> TRUE, value |-> value]

\* Option.none: the fields of the object literal (no payload)
none == [_tag |-> noneTag, isSome |-> FALSE]

\* Result.ok / Result.err: the fields of the object literals
ok(value) == [_tag |-> okTag, isOk |-> TRUE, value |-> value]

\* Result.err as it would be if it kept the isOk of Result.ok
Crossed_err(error) == [_tag |-> errTag, isOk |-> TRUE, error |-> error]

err(error) == [_tag |-> errTag, isOk |-> FALSE, error |-> error]

Options == {some(v) : v \in Vals} \cup {none}
Results == {ok(v) : v \in Vals} \cup {err(e) : e \in Errs}

\* the methods of the object Option.some(value) builds
Some_unwrap(self) == Return(self.value, <<>>)

Some_unwrapOr(self, defaultValue) == Return(self.value, <<>>)

\* Some.map as it would be if it rewrapped with Result.ok
Crossed_Some_map(self, fn) == Return(ok(fn[self.value]), <<Call("fn", self.value)>>)

Some_map(self, fn) ==
    IF Throws(fn, self.value) THEN Propagate("fn", self.value)
    ELSE Return(some(fn[self.value]), <<Call("fn", self.value)>>)

\* Some.andThen as it would be if it ran fn and handed back its receiver
Dropping_Some_andThen(self, fn) == Return(self, <<Call("fn", self.value)>>)

Some_andThen(self, fn) ==
    IF Throws(fn, self.value) THEN Propagate("fn", self.value)
    ELSE Return(fn[self.value], <<Call("fn", self.value)>>)

\* Some.toResult as it would be if it used the error it is given
Failing_Some_toResult(self, error) == Return(err(error), <<>>)

Some_toResult(self, error) == Return(ok(self.value), <<>>)

\* the methods of the object Option.none
None_unwrap(self) == Throw("Error", "Cannot unwrap None")

\* None.unwrapOr as it would be if it threw like unwrap
Throwing_None_unwrapOr(self, defaultValue) == Throw("Error", "Cannot unwrap None")

None_unwrapOr(self, defaultValue) == Return(defaultValue, <<>>)

None_map(self, fn) == Return(self, <<>>)

\* None.andThen as it would be if it ran fn before passing None through
Probing_None_andThen(self, fn) == Return(self, <<Call("fn", self)>>)

\* None.andThen as it would be with the body of Some's, the payload it lacks
\* read as some value of T
Copied_None_andThen(self, fn) ==
    Return(fn[CHOOSE v \in Vals : TRUE], <<Call("fn", Undefined)>>)

None_andThen(self, fn) == Return(self, <<>>)

None_toResult(self, error) == Return(err(error), <<>>)

\* Option.isSome / Option.isNone
isSome(option) == option._tag = someTag

\* Option.isNone as it would be if it compared with the other tag
Crossed_isNone(option) == option._tag = someTag

isNone(option) == option._tag = noneTag

\* Option.assertSome / Option.assertNone
assertSome(option) ==
    IF option._tag # someTag
    THEN Throw("TypeError", "Expected a Some, but got a None")
    ELSE Return(Undefined, <<>>)

assertNone(option) ==
    IF option._tag # noneTag
    THEN Throw("TypeError", "Expected a None, but got a Some")
    ELSE Return(Undefined, <<>>)

(* ------------------------------ Result -------------------------------- *)

\* the methods of the object Result.ok(value) builds
Ok_unwrap(self) == Return(self.value, <<>>)

Ok_unwrapOr(self, defaultValue) == Return(self.value, <<>>)

\* Ok.map as it would be if it stored fn(value) in the receiver and returned it
Mutating_Ok_map(self, fn) ==
    [ret |-> [self EXCEPT !.value = fn[self.value]],
     thrown |-> NoThrow,
     calls |-> <<Call("fn", self.value)>>,
     writes |-> <<[field |-> "value", to |-> fn[self.value]]>>]

\* Ok.map as it would be if it applied fn to its own result again
Twice_Ok_map(self, fn) ==
    Return(ok(fn[fn[self.value]]),
           <<Call("fn", self.value), Call("fn", fn[self.value])>>)

Ok_map(self, fn) ==
    IF Throws(fn, self.value) THEN Propagate("fn", self.value)
    ELSE Return(ok(fn[self.value]), <<Call("fn", self.value)>>)

Ok_mapErr(self, fn) == Return(self, <<>>)

\* Ok.andThen as it would be if it evaluated fn(value) a second time
Twice_Ok_andThen(self, fn) ==
    Return(fn[self.value], <<Call("fn", self.value), Call("fn", self.value)>>)

Ok_andThen(self, fn) ==
    IF Throws(fn, self.value) THEN Propagate("fn", self.value)
    ELSE Return(fn[self.value], <<Call("fn", self.value)>>)

\* Ok.mapBoth as it would be if it caught what okFn throws and gave up the map
Catching_Ok_mapBoth(self, okFn, errFn) ==
    IF Throws(okFn, self.value) THEN Return(self, <<Call("okFn", self.value)>>)
    ELSE Return(ok(okFn[self.value]), <<Call("okFn", self.value)>>)

Ok_mapBoth(self, okFn, errFn) ==
    IF Throws(okFn, self.value) THEN Propagate("okFn", self.value)
    ELSE Return(ok(okFn[self.value]), <<Call("okFn", self.value)>>)

Ok_toOption(self) == Return(some(self.value), <<>>)

\* the methods of the object Result.err(error) builds, after the variants of
\* them that the checks of the claims use

\* Err.unwrap as it would be if it handed out the error
Leaking_Err_unwrap(self) == Return(self.error, <<>>)

Err_unwrap(self) == Throw("Error", "Cannot unwrap Err")

\* Err.unwrapOr as it would be if it handed out the error
Leaking_Err_unwrapOr(self, defaultValue) == Return(self.error, <<>>)

Err_unwrapOr(self, defaultValue) == Return(defaultValue, <<>>)

\* Err.map as it would be if it ran fn before passing the Err through
Probing_Err_map(self, fn) == Return(self, <<Call("fn", self.error)>>)

Err_map(self, fn) == Return(self, <<>>)

Err_mapErr(self, fn) ==
    IF Throws(fn, self.error) THEN Propagate("fn", self.error)
    ELSE Return(err(fn[self.error]), <<Call("fn", self.error)>>)

Err_andThen(self, fn) == Return(self, <<>>)

\* Err.mapBoth as it would be if it passed the Err through like map does
Passing_Err_mapBoth(self, okFn, errFn) == Return(self, <<>>)

Err_mapBoth(self, okFn, errFn) ==
    IF Throws(errFn, self.error) THEN Propagate("errFn", self.error)
    ELSE Return(err(errFn[self.error]), <<Call("errFn", self.error)>>)

\* Err.toOption as it would be if it kept the error as the payload
Keeping_Err_toOption(self) == Return(some(self.error), <<>>)

Err_toOption(self) == Return(none, <<>>)

\* Result.isOk / Result.isErr
isOk(result) == result._tag = okTag

isErr(result) == result._tag = errTag

\* Result.assertOk / Result.assertErr
assertOk(result) ==
    IF result._tag # okTag
    THEN Throw("TypeError", "Expected an Ok, but got an Err")
    ELSE Return(Undefined, <<>>)

\* Result.assertErr as it would be if it kept the test of assertOk
Crossed_assertErr(result) ==
    IF result._tag # okTag
    THEN Throw("TypeError", "Expected an Err, but got an Ok")
    ELSE Return(Undefined, <<>>)

assertErr(result) ==
    IF result._tag # errTag
    THEN Throw("TypeError", "Expected an Err, but got an Ok")
    ELSE Return(Undefined, <<>>)

(* --------------------------- method dispatch --------------------------- *)

\* o.m(...) runs the m of the object literal that built o; the literal also
\* set o._tag, which is never assigned afterwards, so _tag names the literal.
IsOption(c) == c._tag \in {someTag, noneTag}
IsResult(c) == c._tag \in {okTag, errTag}

unwrap(self) ==
    CASE self._tag = someTag -> Some_unwrap(self)
      [] self._tag = noneTag -> None_unwrap(self)
      [] self._tag = okTag -> Ok_unwrap(self)
      [] self._tag = errTag -> Err_unwrap(self)

unwrapOr(self, defaultValue) ==
    CASE self._tag = someTag -> Some_unwrapOr(self, defaultValue)
      [] self._tag = noneTag -> None_unwrapOr(self, defaultValue)
      [] self._tag = okTag -> Ok_unwrapOr(self, defaultValue)
      [] self._tag = errTag -> Err_unwrapOr(self, defaultValue)

map(self, fn) ==
    CASE self._tag = someTag -> Some_map(self, fn)
      [] self._tag = noneTag -> None_map(self, fn)
      [] self._tag = okTag -> Ok_map(self, fn)
      [] self._tag = errTag -> Err_map(self, fn)

andThen(self, fn) ==
    CASE self._tag = someTag -> Some_andThen(self, fn)
      [] self._tag = noneTag -> None_andThen(self, fn)
      [] self._tag = okTag -> Ok_andThen(self, fn)
      [] self._tag = errTag -> Err_andThen(self, fn)

mapErr(self, fn) ==
    CASE self._tag = okTag -> Ok_mapErr(self, fn)
      [] self._tag = errTag -> Err_mapErr(self, fn)

mapBoth(self, okFn, errFn) ==
    CASE self._tag = okTag -> Ok_mapBoth(self, okFn, errFn)
      [] self._tag = errTag -> Err_mapBoth(self, okFn, errFn)

toOption(self) ==
    CASE self._tag = okTag -> Ok_toOption(self)
      [] self._tag = errTag -> Err_toOption(self)

toResult(self, error) ==
    CASE self._tag = someTag -> Some_toResult(self, error)
      [] self._tag = noneTag -> None_toResult(self, error)

(* ----------------------- the functions a client passes ----------------- *)

\* fn of map, okFn of mapBoth
ValFns == [Vals -> Vals]
\* fn of mapErr, errFn of mapBoth
ErrFns == [Errs -> Errs]
\* fn of Option's andThen
OptionFns == [Vals -> Options]
\* fn of Result's andThen
ResultFns == [Vals -> Results]

\* defaultValue of unwrapOr: any payload
Defaults == Vals \cup Errs

\* the functions from S to T whose body fails on one argument, x => x === bad
\* ? Option.none.unwrap() : g(x), for every bad in S and every g
Failing(S, T) == UNION {[S \ {bad} -> T] : bad \in S}

FailingValFns == Failing(Vals, Vals)
FailingErrFns == Failing(Errs, Errs)
FailingOptionFns == Failing(Vals, Options)
FailingResultFns == Failing(Vals, Results)

(* ------------------------------ the client ----------------------------- *)

Init ==
    /\ cur = none
    /\ op = "init"
    /\ recv = Undefined
    /\ args = <<>>
    /\ ret = Undefined
    /\ thrown = NoThrow
    /\ calls = <<>>
    /\ after = Undefined
    /\ theNone = none

\* the one None there is, Option.none, after a call on the container c that
\* made the assignments ws
NoneAfter(c, ws) == IF c._tag = noneTag THEN Written(c, ws) ELSE theNone

\* a factory call: the client goes on with the container it built
Made(name, a, c) ==
    /\ op' = name
    /\ recv' = Undefined
    /\ args' = a
    /\ ret' = c
    /\ thrown' = NoThrow
    /\ calls' = <<>>
    /\ cur' = c
    /\ after' = Undefined
    /\ theNone' = theNone

\* a call that hands back a container: the chain goes on with it
Chained(name, a, r) ==
    /\ op' = name
    /\ recv' = cur
    /\ args' = a
    /\ ret' = r.ret
    /\ thrown' = r.thrown
    /\ calls' = r.calls
    /\ cur' = IF r.thrown = NoThrow THEN r.ret ELSE Written(cur, r.writes)
    /\ after' = Written(cur, r.writes)
    /\ theNone' = NoneAfter(cur, r.writes)

\* a call that hands back a payload, a boolean or nothing: cur stays
Asked(name, a, r) ==
    /\ op' = name
    /\ recv' = cur
    /\ args' = a
    /\ ret' = r.ret
    /\ thrown' = r.thrown
    /\ calls' = r.calls
    /\ cur' = Written(cur, r.writes)
    /\ after' = Written(cur, r.writes)
    /\ theNone' = NoneAfter(cur, r.writes)

CallSome == \E v \in Vals : Made("some", [value |-> v], some(v))

CallNone == Made("none", <<>>, theNone)

CallOk == \E v \in Vals : Made("ok", [value |-> v], ok(v))

CallErr == \E e \in Errs : Made("err", [error |-> e], err(e))

CallUnwrap == Asked("unwrap", <<>>, unwrap(cur))

CallUnwrapOr ==
    \E d \in Defaults : Asked("unwrapOr", [defaultValue |-> d], unwrapOr(cur, d))

CallMap == \E fn \in ValFns : Chained("map", [fn |-> fn], map(cur, fn))

CallAndThen ==
    \/ /\ IsOption(cur)
       /\ \E fn \in OptionFns : Chained("andThen", [fn |-> fn], andThen(cur, fn))
    \/ /\ IsResult(cur)
       /\ \E fn \in ResultFns : Chained("andThen", [fn |-> fn], andThen(cur, fn))

CallMapErr ==
    /\ IsResult(cur)
    /\ \E fn \in ErrFns : Chained("mapErr", [fn |-> fn], mapErr(cur, fn))

CallMapBoth ==
    /\ IsResult(cur)
    /\ \E okFn \in ValFns, errFn \in ErrFns :
          Chained("mapBoth", [okFn |-> okFn, errFn |-> errFn],
                  mapBoth(cur, okFn, errFn))

CallToOption ==
    /\ IsResult(cur)
    /\ Chained("toOption", <<>>, toOption(cur))

CallToResult ==
    /\ IsOption(cur)
    /\ \E e \in Errs : Chained("toResult", [error |-> e], toResult(cur, e))

CallIsSome ==
    /\ IsOption(cur)
    /\ Asked("isSome", <<>>, Return(isSome(cur), <<>>))

CallIsNone ==
    /\ IsOption(cur)
    /\ Asked("isNone", <<>>, Return(isNone(cur), <<>>))

CallIsOk ==
    /\ IsResult(cur)
    /\ Asked("isOk", <<>>, Return(isOk(cur), <<>>))

CallIsErr ==
    /\ IsResult(cur)
    /\ Asked("isErr", <<>>, Return(isErr(cur), <<>>))

CallAssertSome ==
    /\ IsOption(cur)
    /\ Asked("assertSome", <<>>, assertSome(cur))

CallAssertNone ==
    /\ IsOption(cur)
    /\ Asked("assertNone", <<>>, assertNone(cur))

CallAssertOk ==
    /\ IsResult(cur)
    /\ Asked("assertOk", <<>>, assertOk(cur))

CallAssertErr ==
    /\ IsResult(cur)
    /\ Asked("assertErr", <<>>, assertErr(cur))

Next ==
    \/ CallSome
    \/ CallNone
    \/ CallOk
    \/ CallErr
    \/ CallUnwrap
    \/ CallUnwrapOr
    \/ CallMap
    \/ CallAndThen
    \/ CallMapErr
    \/ CallMapBoth
    \/ CallToOption
    \/ CallToResult
    \/ CallIsSome
    \/ CallIsNone
    \/ CallIsOk
    \/ CallIsErr
    \/ CallAssertSome
    \/ CallAssertNone
    \/ CallAssertOk
    \/ CallAssertErr

Spec == Init /\ [][Next]_vars

(* ------------- the client, passing functions whose body may fail -------- *)

FailingMap == \E fn \in FailingValFns : Chained("map", [fn |-> fn], map(cur, fn))

FailingAndThen ==
    \/ /\ IsOption(cur)
       /\ \E fn \in FailingOptionFns :
             Chained("andThen", [fn |-> fn], andThen(cur, fn))
    \/ /\ IsResult(cur)
       /\ \E fn \in FailingResultFns :
             Chained("andThen", [fn |-> fn], andThen(cur, fn))

FailingMapErr ==
    /\ IsResult(cur)
    /\ \E fn \in FailingErrFns : Chained("mapErr", [fn |-> fn], mapErr(cur, fn))

FailingMapBoth ==
    /\ IsResult(cur)
    /\ \E okFn \in FailingValFns, errFn \in FailingErrFns :
          Chained("mapBoth", [okFn |-> okFn, errFn |-> errFn],
                  mapBoth(cur, okFn, errFn))

NextFailing ==
    \/ CallSome
    \/ CallNone
    \/ CallOk
    \/ CallErr
    \/ FailingMap
    \/ FailingAndThen
    \/ FailingMapErr
    \/ FailingMapBoth

SpecFailing == Init /\ [][NextFailing]_vars

(* ------------------------------- claims -------------------------------- *)

\* the invocations a call made of its parameter `name`
CallsOf(name) == SelectSeq(calls, LAMBDA c : c.fn = name)

IsAbsent(c) == c._tag \in {noneTag, errTag}

\* C1: map, mapErr, andThen and mapBoth short-circuit on the non-matching
\* variant: on None and on Err, map and andThen invoke nothing and return a
\* container with the receiver's tag and payload; so does mapErr on Ok; on
\* Ok mapBoth never invokes errFn, on Err it never invokes okFn.
C1_ShortCircuit ==
    /\ (op \in {"map", "andThen"} /\ IsAbsent(recv)) =>
          (calls = <<>> /\ thrown = NoThrow /\ ret = recv)
    /\ (op = "mapErr" /\ recv._tag = okTag) =>
          (calls = <<>> /\ thrown = NoThrow /\ ret = recv)
    /\ (op = "mapBoth" /\ recv._tag = okTag) => CallsOf("errFn") = <<>>
    /\ (op = "mapBoth" /\ recv._tag = errTag) => CallsOf("okFn") = <<>>

\* an Err went through map and came back as it was
C1_Witness == op = "map" /\ recv._tag = errTag /\ ret = recv /\ cur = recv

\* C2, as the spec states it: on None and on Err, none of map, mapErr and
\* andThen invokes its function argument.
C2_AsStated ==
    (op \in {"map", "mapErr", "andThen"} /\ IsAbsent(recv)) => Len(calls) = 0

\* C2, amended: on None and on Err, map and andThen invoke their function
\* argument 0 times; mapErr invokes it 0 times on Ok and exactly once, on
\* the held error, on Err.
C2_ShortCircuitLaw ==
    /\ (op \in {"map", "andThen"} /\ IsAbsent(recv)) => Len(calls) = 0
    /\ (op = "mapErr" /\ recv._tag = okTag) => Len(calls) = 0
    /\ (op = "mapErr" /\ recv._tag = errTag) => calls = <<Call("fn", recv.error)>>

\* andThen was called on None
C2_Witness == op = "andThen" /\ recv = none /\ Len(calls) = 0 /\ cur = none

\* C3: mapBoth fusion: r.mapBoth(f, g) has the tag and payload of
\* r.map(f).mapErr(g) and of r.mapErr(g).map(f), for Ok and Err r.
C3_MapBothFusion ==
    op = "mapBoth" =>
        /\ thrown = NoThrow
        /\ ret = mapErr(map(recv, args.okFn).ret, args.errFn).ret
        /\ ret = map(mapErr(recv, args.errFn).ret, args.okFn).ret

\* mapBoth changed the error of an Err
C3_Witness ==
    op = "mapBoth" /\ recv._tag = errTag /\ ret._tag = errTag /\ ret.error # recv.error

\* C4: round trip: Result.ok(v).toOption().toResult(e) is Result.ok(v)
\* whatever e is, and Option.none.toResult(e).toOption() is Option.none.
C4_RoundTrip ==
    /\ (op = "toOption" /\ recv._tag = okTag) =>
          \A e \in Errs : toResult(ret, e).ret = recv
    /\ (op = "toResult" /\ recv._tag = noneTag) => toOption(ret).ret = recv

\* an Ok became a Some
C4_Witness == op = "toOption" /\ recv._tag = okTag /\ ret._tag = someTag /\ cur = ret

\* C5: toOption turns Ok(v) into Some(v) and Err(e) into None, which holds no
\* error; toResult(e') turns Some(v) into Ok(v) and None into Err(e').
C5_Conversion ==
    /\ (op = "toOption" /\ recv._tag = okTag) =>
          (ret._tag = someTag /\ ret.isSome /\ ret.value = recv.value)
    /\ (op = "toOption" /\ recv._tag = errTag) =>
          (ret._tag = noneTag /\ ~ret.isSome /\ DOMAIN ret = {"_tag", "isSome"})
    /\ (op = "toResult" /\ recv._tag = someTag) =>
          (ret._tag = okTag /\ ret.isOk /\ ret.value = recv.value)
    /\ (op = "toResult" /\ recv._tag = noneTag) =>
          (ret._tag = errTag /\ ~ret.isOk /\ ret.error = args.error)

\* None became the Err of the error the caller supplied
C5_Witness ==
    op = "toResult" /\ recv._tag = noneTag /\ ret._tag = errTag /\ ret.error = args.error

\* C6: on the matching variant the function is applied exactly once, to the
\* held payload, and its result is rewrapped in the same variant: map on
\* Some and on Ok, mapErr on Err, mapBoth on Ok (okFn alone) and on Err
\* (errFn alone).
C6_MatchingVariant ==
    /\ (op = "map" /\ recv._tag = someTag) =>
          /\ calls = <<Call("fn", recv.value)>>
          /\ ret._tag = someTag /\ ret.isSome /\ ret.value = args.fn[recv.value]
    /\ (op = "map" /\ recv._tag = okTag) =>
          /\ calls = <<Call("fn", recv.value)>>
          /\ ret._tag = okTag /\ ret.isOk /\ ret.value = args.fn[recv.value]
    /\ (op = "mapErr" /\ recv._tag = errTag) =>
          /\ calls = <<Call("fn", recv.error)>>
          /\ ret._tag = errTag /\ ~ret.isOk /\ ret.error = args.fn[recv.error]
    /\ (op = "mapBoth" /\ recv._tag = okTag) =>
          /\ calls = <<Call("okFn", recv.value)>>
          /\ ret._tag = okTag /\ ret.isOk /\ ret.value = args.okFn[recv.value]
    /\ (op = "mapBoth" /\ recv._tag = errTag) =>
          /\ calls = <<Call("errFn", recv.error)>>
          /\ ret._tag = errTag /\ ~ret.isOk /\ ret.error = args.errFn[recv.error]

\* map changed the payload of an Ok
C6_Witness ==
    op = "map" /\ recv._tag = okTag /\ ret._tag = okTag /\ ret.value # recv.value

\* the invocations of g that a.andThen(x => f(x).andThen(g)) makes, given the
\* invocations cs it makes of x => f(x).andThen(g)
RECURSIVE InnerCalls(_, _, _)
InnerCalls(f, g, cs) ==
    IF cs = <<>> THEN <<>>
    ELSE andThen(f[Head(cs).arg], g).calls \o InnerCalls(f, g, Tail(cs))

\* C7: andThen is associative: a.andThen(f).andThen(g) and
\* a.andThen(x => f(x).andThen(g)) yield the same container and invoke f as
\* often, and g as often, on the same arguments; for Result and for Option.
C7_AndThenAssociative ==
    op = "andThen" =>
        \A g \in (IF IsOption(recv) THEN OptionFns ELSE ResultFns) :
            LET f == args.fn
                second == andThen(ret, g)
                nested == andThen(recv, [x \in Vals |-> andThen(f[x], g).ret])
            IN  /\ second.ret = nested.ret
                /\ second.thrown = nested.thrown
                /\ calls = nested.calls
                /\ second.calls = InnerCalls(f, g, nested.calls)

\* andThen ran f on an Ok and f failed
C7_Witness ==
    op = "andThen" /\ recv._tag = okTag /\ ret._tag = errTag /\ Len(calls) = 1

\* x => x
Identity == [x \in Vals |-> x]

\* C8: identity laws: Option.some(v).map(x => x) has the tag and payload of
\* Option.some(v), and Result.ok(v).map(x => x) those of Result.ok(v).
C8_IdentityLaws ==
    (op = "map" /\ recv._tag \in {someTag, okTag} /\ args.fn = Identity) =>
        (ret._tag = recv._tag /\ ret.value = recv.value /\ DOMAIN ret = DOMAIN recv)

\* a Some went through map(x => x)
C8_Witness ==
    op = "map" /\ recv._tag = someTag /\ args.fn = Identity /\ cur._tag = someTag

\* C9: narrowing consistency: for every Option a chain yields, isSome is the
\* negation of isNone and is true exactly when the container is a Some; for
\* every Result, isOk is the negation of isErr and is true exactly when the
\* container is an Ok.
C9_NarrowingConsistency ==
    /\ IsOption(cur) =>
          /\ isSome(cur) = ~isNone(cur)
          /\ isSome(cur) = (cur.isSome /\ "value" \in DOMAIN cur)
    /\ IsResult(cur) =>
          /\ isOk(cur) = ~isErr(cur)
          /\ isOk(cur) = (cur.isOk /\ "value" \in DOMAIN cur)
    /\ op = "isSome" => ret = ~isNone(recv)
    /\ op = "isNone" => ret = ~isSome(recv)
    /\ op = "isOk" => ret = ~isErr(recv)
    /\ op = "isErr" => ret = ~isOk(recv)

\* isNone answered FALSE for the Some a chain yielded
C9_Witness == op = "isNone" /\ recv._tag = someTag /\ ret = FALSE /\ cur = recv

\* C10: unwrap returns the held payload for Some(v) and Ok(v); for None it
\* throws "Cannot unwrap None" and for every Err(e) "Cannot unwrap Err",
\* whatever e is, and returns nothing.
C10_Unwrap ==
    op = "unwrap" =>
        /\ recv._tag \in {someTag, okTag} =>
              (thrown = NoThrow /\ ret = recv.value)
        /\ recv._tag = noneTag =>
              (thrown = [type |-> "Error", message |-> "Cannot unwrap None"]
                  /\ ret = Undefined)
        /\ recv._tag = errTag =>
              (thrown = [type |-> "Error", message |-> "Cannot unwrap Err"]
                  /\ ret = Undefined)

\* unwrap threw on an Err
C10_Witness ==
    op = "unwrap" /\ recv._tag = errTag /\ thrown.message = "Cannot unwrap Err"

\* C11: unwrapOr never fails: on Some(v) and Ok(v) it returns v whatever the
\* default d is; on None and on Err(e) it returns d, never e; and so it does
\* on the Err a mapErr has just returned.
C11_UnwrapOr ==
    /\ op = "unwrapOr" =>
          /\ thrown = NoThrow
          /\ recv._tag \in {someTag, okTag} => ret = recv.value
          /\ IsAbsent(recv) => ret = args.defaultValue
    /\ (op = "mapErr" /\ recv._tag = errTag) =>
          \A d \in Defaults :
              /\ unwrapOr(ret, d).thrown = NoThrow
              /\ unwrapOr(ret, d).ret = d

\* unwrapOr on an Err returned a default that is not the error
C11_Witness ==
    /\ op = "unwrapOr" /\ recv._tag = errTag
    /\ ret = args.defaultValue /\ ret # recv.error

\* what `throw new TypeError(message)` leaves
TypeError(message) == [type |-> "TypeError", message |-> message]

\* C12: each assertion throws exactly when the container is the opposite
\* variant, with its fixed message, and otherwise returns normally; either
\* way the container is what it was.
C12_Assertions ==
    /\ op = "assertSome" =>
          thrown = IF recv._tag = noneTag
                   THEN TypeError("Expected a Some, but got a None") ELSE NoThrow
    /\ op = "assertNone" =>
          thrown = IF recv._tag = someTag
                   THEN TypeError("Expected a None, but got a Some") ELSE NoThrow
    /\ op = "assertOk" =>
          thrown = IF recv._tag = errTag
                   THEN TypeError("Expected an Ok, but got an Err") ELSE NoThrow
    /\ op = "assertErr" =>
          thrown = IF recv._tag = okTag
                   THEN TypeError("Expected an Err, but got an Ok") ELSE NoThrow
    /\ op \in {"assertSome", "assertNone", "assertOk", "assertErr"} =>
          (cur = recv /\ ret = Undefined /\ calls = <<>>)

\* assertErr threw on an Ok
C12_Witness ==
    op = "assertErr" /\ recv._tag = okTag /\ thrown.type = "TypeError" /\ cur = recv

\* the calls that end abruptly
AbruptPaths ==
    \/ op = "unwrap" /\ IsAbsent(recv)
    \/ op = "assertSome" /\ recv._tag = noneTag
    \/ op = "assertNone" /\ recv._tag = someTag
    \/ op = "assertOk" /\ recv._tag = errTag
    \/ op = "assertErr" /\ recv._tag = okTag

\* C13: the only calls that end abruptly are unwrap on None/Err and the four
\* assertions on the opposite variant; every other call, given functions that
\* return normally, returns: a container from the factories, the combinators
\* and the conversions, a payload from unwrapOr, a boolean from is*.
C13_OnlyAbruptPaths ==
    /\ thrown # NoThrow <=> AbruptPaths
    /\ op \in {"some", "none", "map", "andThen", "toOption"} /\ ~IsResult(ret) =>
          ret \in Options
    /\ op \in {"ok", "err", "map", "andThen", "mapErr", "mapBoth", "toResult"}
          /\ ~IsOption(ret) => ret \in Results
    /\ op = "unwrapOr" => ret \in Defaults
    /\ op \in {"isSome", "isNone", "isOk", "isErr"} => ret \in BOOLEAN

\* unwrapOr returned on a None
C13_Witness ==
    op = "unwrapOr" /\ recv._tag = noneTag /\ thrown = NoThrow /\ ret \in Defaults

\* C14: immutability: whatever is called on a container, the container has
\* the tag and the payload afterwards that it had before; so has every
\* container got earlier in a chain, a call handing back either its receiver
\* or a container built anew; and Option.none is None after any sequence of
\* calls.
C14_Immutable ==
    /\ recv # Undefined => after = recv
    /\ theNone = none
    /\ (thrown # NoThrow \/ op \in {"unwrap", "unwrapOr", "isSome", "isNone",
           "isOk", "isErr", "assertSome", "assertNone", "assertOk", "assertErr"})
          => cur = recv

\* map built a new Ok and left the one it was called on as it was
C14_Witness ==
    op = "map" /\ recv._tag = okTag /\ ret # recv /\ after = recv /\ theNone = none

\* C15: andThen on Some(v) and on Ok(v) hands back f(v) itself, unwrapped:
\* when f(v) is None or an Err, so is the result, and unwrapOr(d) on it is d.
C15_AndThenDirect ==
    (op = "andThen" /\ recv._tag \in {someTag, okTag}) =>
        /\ thrown = NoThrow
        /\ ret = args.fn[recv.value]
        /\ cur = ret
        /\ IsAbsent(ret) => \A d \in Defaults : unwrapOr(ret, d).ret = d

\* andThen on a Some handed back the None its function returned
C15_Witness == op = "andThen" /\ recv._tag = someTag /\ ret = none /\ cur = none

\* C16: absence and failure are absorbing: a map or an andThen on None
\* yields None, on Err(e) it yields Err(e); mapErr and mapBoth on an Err
\* yield an Err; and unwrapOr(d) on either returns d.
C16_Absorbing ==
    [][ /\ (IsAbsent(cur) /\ op' \in {"map", "andThen"}) =>
              (cur' = cur /\ thrown' = NoThrow)
        /\ (cur._tag = errTag /\ op' \in {"mapErr", "mapBoth"}) =>
              cur'._tag = errTag
        /\ (IsAbsent(cur) /\ op' = "unwrapOr") => ret' = args'.defaultValue
      ]_vars

\* an Err went through andThen and is the Err it was
C16_Witness ==
    op = "andThen" /\ recv._tag = errTag /\ cur = recv /\ calls = <<>>

\* the last call was a combinator on the variant its function is for
OnMatching ==
    \/ op \in {"map", "andThen"} /\ recv._tag \in {someTag, okTag}
    \/ op = "mapErr" /\ recv._tag = errTag
    \/ op = "mapBoth" /\ recv._tag \in {okTag, errTag}

\* the payload the receiver of the last call holds
Held == IF recv._tag = errTag THEN recv.error ELSE recv.value

\* the parameter a combinator invokes on the matching variant, and its name
MatchingName ==
    IF op = "mapBoth" THEN (IF recv._tag = okTag THEN "okFn" ELSE "errFn") ELSE "fn"

MatchingFn == args[MatchingName]

\* C17: failures are not caught: when the function a map, mapErr, mapBoth or
\* andThen applies on the matching variant fails, the combinator throws that
\* same failure after that one invocation, returns no container and leaves
\* its receiver as it was; a combinator whose function does not fail on the
\* held payload, or is not applied, does not throw.
C17_FailuresPropagate ==
    op \in {"map", "andThen", "mapErr", "mapBoth"} =>
        IF OnMatching /\ Throws(MatchingFn, Held)
        THEN /\ thrown = FnFailure
             /\ ret = Undefined
             /\ calls = <<Call(MatchingName, Held)>>
             /\ cur = recv
             /\ after = recv
        ELSE thrown = NoThrow

\* okFn failed in mapBoth on an Ok, and mapBoth threw
C17_Witness ==
    /\ op = "mapBoth" /\ recv._tag = okTag /\ Throws(args.okFn, recv.value)
    /\ thrown = FnFailure /\ cur = recv

\* C18: representation: in every container a chain yields, the public
\* discriminant says what the hidden tag and the predicate say (isOk is true
\* iff Result.isOk is, isSome iff Option.isSome is); the value field of a
\* Some or an Ok is what unwrap() returns; and the error field of an Err is
\* the error it was built from.
C18_Representation ==
    /\ IsResult(cur) =>
          /\ cur.isOk = isOk(cur)
          /\ cur.isOk = (cur._tag = okTag)
          /\ cur.isOk => (unwrap(cur).thrown = NoThrow /\ cur.value = unwrap(cur).ret)
          /\ DOMAIN cur = {"_tag", "isOk", IF cur.isOk THEN "value" ELSE "error"}
    /\ IsOption(cur) =>
          /\ cur.isSome = isSome(cur)
          /\ cur.isSome = (cur._tag = someTag)
          /\ cur.isSome =>
                (unwrap(cur).thrown = NoThrow /\ cur.value = unwrap(cur).ret)
          /\ DOMAIN cur = {"_tag", "isSome"} \cup (IF cur.isSome THEN {"value"} ELSE {})
    /\ IsResult(cur) \/ IsOption(cur)
    /\ op \in {"err", "toResult"} /\ cur._tag = errTag => cur.error = args.error
    /\ op = "mapErr" /\ recv._tag = errTag => cur.error = args.fn[recv.error]
    /\ op = "mapBoth" /\ recv._tag = errTag => cur.error = args.errFn[recv.error]
    /\ op \in {"map", "andThen"} /\ recv._tag = errTag => cur.error = recv.error

\* mapErr built an Err that holds what its function returned
C18_Witness ==
    /\ op = "mapErr" /\ recv._tag = errTag /\ cur # recv
    /\ ~cur.isOk /\ cur.error = args.fn[recv.error]

====
